---------------------------- MODULE Spec2Model ----------------------------
(***************************************************************************)
(* A model of wizwalker's MouseHandler (mouse_handler.py) and MemoryReader *)
(* (memory/memory_reader.py).                                              *)
(*                                                                         *)
(* The coroutines run on asyncio's single-threaded cooperative scheduler:  *)
(* an action of the model is the code a coroutine runs between two         *)
(* suspension points (an await that really suspends).  Blocking calls are  *)
(* either handed to the executor (run_in_executor) or made in place on the *)
(* scheduler's thread; the model records which.                            *)
(***************************************************************************)
EXTENDS Integers, Sequences, FiniteSets, TLC

VARIABLES
    \* ---- MouseHandler ----
    click_lock,     \* MouseHandler.click_lock: NoLock or an asyncio.Lock
    cpc,            \* cpc[t]: where click invocation t stands
    cargs,          \* cargs[t]: the arguments of click invocation t
    events,         \* what reached the hook layer and the window, in order
    mouse_pos,      \* the shared mouse position the hook layer reads
    c2s,            \* c2s[t]: what ClientToScreen reported to invocation t
    cerr,           \* cerr[t]: the exception invocation t raised
    \* ---- the target process ----
    running,        \* whether the target process is alive
    mem,            \* mem[a]: the byte at address a of the target process
    \* ---- MemoryReader: byte-level and typed I/O ----
    iopc,           \* where the calling coroutine stands
    ioop,           \* the operation called and its arguments
    ioreq,          \* the blocking call handed to the executor
    ioret,          \* what the executor's call returned or raised
    iores,          \* what the operation returned or raised
    oscalls,        \* the OS calls of the current operation, with their thread
    nwrites,        \* number of write operations called so far
    live,           \* the typed writes no later write has touched
    \* ---- MemoryReader: pattern scan ----
    regions,        \* the regions of the target's address space, by address
    scpc,           \* where the coroutine calling pattern_scan stands
    scargs,         \* the arguments of pattern_scan
    module,         \* what module_from_name returned
    cursor,         \* next_region / page_address of the scan loop
    found,          \* the scan loop's found list
    scres           \* what pattern_scan returned or raised

mouseVars == <<click_lock, cpc, cargs, events, mouse_pos, c2s, cerr>>

ioVars_but_oscalls == <<running, mem, iopc, ioop, ioreq, ioret, iores,
                        nwrites, live>>

ioVars == <<ioVars_but_oscalls, oscalls>>

scanVars == <<regions, scpc, scargs, module, cursor, found, scres>>

vars == <<click_lock, cpc, cargs, events, mouse_pos, c2s, cerr,
          running, mem, iopc, ioop, ioreq, ioret, iores, oscalls, nwrites,
          live, regions, scpc, scargs, module, cursor, found, scres>>

-----------------------------------------------------------------------------
(* Bounds *)

\* number of click invocations that may run concurrently
NumClicks == 2

\* bits of a byte of the target's memory (8 in the program; the widths
\* of the types, in bytes, are the program's)
BitsPerByte == 2

\* bytes of target memory the byte-level I/O addresses; an access that
\* reaches beyond them faults
MemSize == 8

\* number of write operations in one behaviour
MaxWrites == 1

\* number of regions between the null page and the free tail of the
\* address space
NumRegions == 4

\* bytes of a region
RegionBytes == 2

-----------------------------------------------------------------------------
(***************************************************************************)
(* MouseHandler                                                            *)
(***************************************************************************)

Clicks == 1..NumClicks

WM_MOUSEMOVE == 512       \* 0x200
WM_LBUTTONDOWN == 513     \* 0x201
WM_RBUTTONDOWN == 516     \* 0x204

NoLock == [kind |-> "None"]

\* asyncio.Lock(): unlocked, no waiters.  waiters is the FIFO of the
\* invocations suspended in acquire(); woken holds those whose future
\* release() has completed and that have not run yet.
NewLock == [kind |-> "Lock", locked |-> FALSE, waiters |-> <<>>, woken |-> {}]

\* the client area's origin on the screen, added by ClientToScreen
WindowOrigin == 1

\* the point click is called with (client coordinates)
ClientPoints == {<<1, 2>>}

ClickArgs ==
    [point : ClientPoints, right_click : BOOLEAN,
     sleep_duration : {0, 1}, use_post : BOOLEAN]

NoArgs == [point |-> <<0, 0>>, right_click |-> FALSE,
           sleep_duration |-> 0, use_post |-> FALSE]

\* click, lines 53-56: the message of the button pressed
button_down_message_left(a) == WM_LBUTTONDOWN

button_down_message(a) ==
    IF a.right_click THEN WM_RBUTTONDOWN ELSE WM_LBUTTONDOWN

\* click, lines 58-61; set_mouse_position, lines 95-98
send_method(use_post) == IF use_post THEN "PostMessageW" ELSE "SendMessageW"

\* a window message as the target window receives it
Message(t, method, msg) ==
    [task |-> t, kind |-> "message", method |-> method, msg |-> msg]

\* the hook layer's write_mouse_position(x, y)
PositionWrite(t, p) ==
    [task |-> t, kind |-> "write_mouse_position", pos |-> p]

\* user32.ClientToScreen on a valid window: client to screen coordinates
ClientToScreen(p) == <<p[1] + WindowOrigin, p[2] + WindowOrigin>>

\* click, lines 63-64: the lock is created on first use.  No suspension
\* point lies between the test and the assignment.
EnsureLockFresh(lock) == NewLock

EnsureLock(lock) == IF lock = NoLock THEN NewLock ELSE lock

\* asyncio.Lock.release, called by the lock's __aexit__: unlock and
\* complete the future of the first waiter.
Release(lock) ==
    [lock EXCEPT !.locked = FALSE,
                 !.woken = IF lock.waiters = <<>> THEN {}
                           ELSE {Head(lock.waiters)}]

\* click, line 67: async with releases the lock as well when an exception
\* leaves the block.
ReleaseNotOnError(lock) == lock

ReleaseOnError(lock) == Release(lock)

\* The body under the lock, up to its first suspension point: click line
\* 69 entering set_mouse_position lines 95-115.  convert_from_client keeps
\* its default (True).  converted is ClientToScreen's verdict: when it
\* reports failure RuntimeError leaves the async with block, which
\* releases the lock.  Otherwise the invocation suspends in the hook
\* layer's write_mouse_position.
EnterBodyUnchecked(t, lock, a, converted) ==
    /\ c2s' = [c2s EXCEPT ![t] = IF converted THEN "ok" ELSE "failed"]
    /\ click_lock' = [lock EXCEPT !.locked = TRUE]
    /\ cpc' = [cpc EXCEPT ![t] = "write_mouse_position"]
    /\ UNCHANGED cerr

EnterBody(t, lock, a, converted) ==
    /\ c2s' = [c2s EXCEPT ![t] = IF converted THEN "ok" ELSE "failed"]
    /\ IF converted
       THEN /\ click_lock' = [lock EXCEPT !.locked = TRUE]
            /\ cpc' = [cpc EXCEPT ![t] = "write_mouse_position"]
            /\ UNCHANGED cerr
       ELSE /\ click_lock' = ReleaseOnError([lock EXCEPT !.locked = TRUE])
            /\ cpc' = [cpc EXCEPT ![t] = "failed"]
            /\ cerr' = [cerr EXCEPT ![t] = "RuntimeError"]

\* click, lines 53-69: a new invocation, up to its first suspension point.
\* asyncio.Lock.acquire takes a free lock without suspending when nobody
\* waits for it, and queues the caller otherwise.
ClickCall(t, a, converted) ==
    /\ cpc[t] = "idle"
    /\ cargs' = [cargs EXCEPT ![t] = a]
    /\ LET lock == EnsureLock(click_lock) IN
         IF ~lock.locked /\ lock.waiters = <<>>
         THEN EnterBody(t, lock, a, converted)
         ELSE /\ click_lock' = [lock EXCEPT !.waiters = Append(@, t)]
              /\ cpc' = [cpc EXCEPT ![t] = "acquire"]
              /\ UNCHANGED <<c2s, cerr>>
    /\ UNCHANGED <<events, mouse_pos>>
    /\ UNCHANGED <<ioVars, scanVars>>

\* asyncio.Lock.acquire resumed by release: the woken waiter leaves the
\* queue, takes the lock and enters the body.
ClickAcquired(t, converted) ==
    /\ cpc[t] = "acquire"
    /\ t \in click_lock.woken
    /\ LET lock == [click_lock EXCEPT
                       !.waiters = SelectSeq(@, LAMBDA w : w # t),
                       !.woken = @ \ {t}] IN
         EnterBody(t, lock, cargs[t], converted)
    /\ UNCHANGED <<cargs, events, mouse_pos>>
    /\ UNCHANGED <<ioVars, scanVars>>

\* The rest of set_mouse_position (lines 115-119) and click lines 71-75,
\* resumed when the hook layer's write_mouse_position is over.  written is
\* its verdict: it raises when the mouseless hook is not active, and the
\* exception leaves the async with block.
\* set_mouse_position was called without use_post (line 69), so its
\* mouse-move goes out with its own default method.
PositionWritten(t, written) ==
    /\ cpc[t] = "write_mouse_position"
    /\ LET a == cargs[t]
           p == ClientToScreen(a.point)
           move == <<PositionWrite(t, p),
                     Message(t, send_method(FALSE), WM_MOUSEMOVE)>>
           down == Message(t, send_method(a.use_post), button_down_message(a))
           up == Message(t, send_method(a.use_post), button_down_message(a) + 1)
       IN
         IF ~written
         THEN /\ click_lock' = ReleaseOnError(click_lock)
              /\ cpc' = [cpc EXCEPT ![t] = "failed"]
              /\ cerr' = [cerr EXCEPT ![t] = "HookError"]
              /\ UNCHANGED <<events, mouse_pos>>
         ELSE /\ mouse_pos' = p
              /\ UNCHANGED cerr
              /\ IF a.sleep_duration > 0
                 THEN /\ events' = events \o move \o <<down>>
                      /\ cpc' = [cpc EXCEPT ![t] = "sleep"]
                      /\ UNCHANGED click_lock
                 ELSE /\ events' = events \o move \o <<down, up>>
                      /\ cpc' = [cpc EXCEPT ![t] = "done"]
                      /\ click_lock' = Release(click_lock)
    /\ UNCHANGED <<cargs, c2s>>
    /\ UNCHANGED <<ioVars, scanVars>>

\* click, lines 73-75: asyncio.sleep is over; button up, then __aexit__.
SleepOver(t) ==
    /\ cpc[t] = "sleep"
    /\ LET a == cargs[t] IN
         events' = Append(events,
            Message(t, send_method(a.use_post), button_down_message(a) + 1))
    /\ cpc' = [cpc EXCEPT ![t] = "done"]
    /\ click_lock' = Release(click_lock)
    /\ UNCHANGED <<cargs, mouse_pos, c2s, cerr>>
    /\ UNCHANGED <<ioVars, scanVars>>

\* the arguments of a call of set_mouse_position made by the handler's
\* user
PositionArgs ==
    [point : ClientPoints, convert_from_client : BOOLEAN, use_post : BOOLEAN]

\* set_mouse_position, lines 100-113: the point in screen coordinates
ScreenPoint(a) ==
    IF a.convert_from_client THEN ClientToScreen(a.point) ELSE a.point

\* set_mouse_position called on its own, lines 95-115, up to the
\* suspension in the hook layer's write_mouse_position.  converted is
\* ClientToScreen's verdict, asked for only when convert_from_client.
SetPositionCall(t, a, converted) ==
    /\ cpc[t] = "idle"
    /\ a.convert_from_client \/ converted
    /\ cargs' = [cargs EXCEPT ![t] = a]
    /\ IF a.convert_from_client
       THEN /\ c2s' = [c2s EXCEPT ![t] = IF converted THEN "ok" ELSE "failed"]
            /\ IF converted
               THEN /\ cpc' = [cpc EXCEPT ![t] = "set_mouse_position"]
                    /\ UNCHANGED cerr
               ELSE /\ cpc' = [cpc EXCEPT ![t] = "failed"]
                    /\ cerr' = [cerr EXCEPT ![t] = "RuntimeError"]
       ELSE /\ cpc' = [cpc EXCEPT ![t] = "set_mouse_position"]
            /\ UNCHANGED <<c2s, cerr>>
    /\ UNCHANGED <<click_lock, events, mouse_pos>>
    /\ UNCHANGED <<ioVars, scanVars>>

\* set_mouse_position, lines 115-119, resumed when the hook layer's
\* write_mouse_position is over (written: it did not raise).
SetPositionWritten(t, written) ==
    /\ cpc[t] = "set_mouse_position"
    /\ IF written
       THEN /\ mouse_pos' = ScreenPoint(cargs[t])
            /\ events' = events \o
                  <<PositionWrite(t, ScreenPoint(cargs[t])),
                    Message(t, send_method(cargs[t].use_post), WM_MOUSEMOVE)>>
            /\ cpc' = [cpc EXCEPT ![t] = "done"]
            /\ UNCHANGED cerr
       ELSE /\ cpc' = [cpc EXCEPT ![t] = "failed"]
            /\ cerr' = [cerr EXCEPT ![t] = "HookError"]
            /\ UNCHANGED <<events, mouse_pos>>
    /\ UNCHANGED <<click_lock, cargs, c2s>>
    /\ UNCHANGED <<ioVars, scanVars>>

\* MouseHandler.__init__, lines 14-16
InitMouse ==
    /\ click_lock = NoLock
    /\ cpc = [t \in Clicks |-> "idle"]
    /\ cargs = [t \in Clicks |-> NoArgs]
    /\ events = <<>>
    /\ mouse_pos = <<0, 0>>
    /\ c2s = [t \in Clicks |-> "none"]
    /\ cerr = [t \in Clicks |-> "none"]

NextClick ==
    \/ \E t \in Clicks, a \in ClickArgs, c \in BOOLEAN : ClickCall(t, a, c)
    \/ \E t \in Clicks, c \in BOOLEAN : ClickAcquired(t, c)
    \/ \E t \in Clicks, w \in BOOLEAN : PositionWritten(t, w)
    \/ \E t \in Clicks : SleepOver(t)

\* clicks, and calls of set_mouse_position beside them
NextMouse ==
    \/ \E t \in Clicks, a \in ClickArgs, c \in BOOLEAN : ClickCall(t, a, c)
    \/ \E t \in Clicks, c \in BOOLEAN : ClickAcquired(t, c)
    \/ \E t \in Clicks, w \in BOOLEAN : PositionWritten(t, w)
    \/ \E t \in Clicks : SleepOver(t)
    \/ \E t \in Clicks, a \in PositionArgs, c \in BOOLEAN :
          SetPositionCall(t, a, c)
    \/ \E t \in Clicks, w \in BOOLEAN : SetPositionWritten(t, w)

-----------------------------------------------------------------------------
(***************************************************************************)
(* MemoryReader: byte-level and typed I/O                                  *)
(***************************************************************************)

ByteRadix == 2 ^ BitsPerByte
Addr == 0..(MemSize - 1)

RECURSIVE Power(_, _)
Power(b, n) == IF n = 0 THEN 1 ELSE b * Power(b, n - 1)

\* wizwalker.type_format_dict: type identifier -> struct format, given here
\* as the format's kind and struct.calcsize of it.  Signed and unsigned
\* integers of 8, 16, 32 and 64 bits, the two floats and the boolean.
type_format_dict ==
    [int8 |-> [kind |-> "int", size |-> 1],
     uint8 |-> [kind |-> "uint", size |-> 1],
     int16 |-> [kind |-> "int", size |-> 2],
     uint16 |-> [kind |-> "uint", size |-> 2],
     int32 |-> [kind |-> "int", size |-> 4],
     uint32 |-> [kind |-> "uint", size |-> 4],
     int64 |-> [kind |-> "int", size |-> 8],
     uint64 |-> [kind |-> "uint", size |-> 8],
     float |-> [kind |-> "float", size |-> 4],
     double |-> [kind |-> "float", size |-> 8],
     bool |-> [kind |-> "bool", size |-> 1]]

NoFormat == [kind |-> "None", size |-> 0]

\* type_format_dict.get(data_type), lines 172 and 180
LookupAny(data_type) ==
    IF data_type \in DOMAIN type_format_dict
    THEN type_format_dict[data_type]
    ELSE type_format_dict["uint8"]

Lookup(data_type) ==
    IF data_type \in DOMAIN type_format_dict
    THEN type_format_dict[data_type]
    ELSE NoFormat

\* the values a format can hold
MinValue(fmt) ==
    IF fmt.kind = "int" THEN -(Power(ByteRadix, fmt.size) \div 2) ELSE 0

MaxValue(fmt) ==
    IF fmt.kind = "int" THEN (Power(ByteRadix, fmt.size) \div 2) - 1
    ELSE Power(ByteRadix, fmt.size) - 1

Packable(fmt, value) ==
    IF fmt.kind = "bool" THEN TRUE
    ELSE /\ MinValue(fmt) <= value
         /\ value <= MaxValue(fmt)

\* struct.pack(type_format, value), line 184: little-endian, two's
\* complement, exactly calcsize bytes; ? packs a truth value as 1 or 0.
\* (Python's True and False are the integers 1 and 0.)
packBigEndian(fmt, value) ==
    IF fmt.kind = "bool" THEN <<IF value # 0 THEN 1 ELSE 0>>
    ELSE [i \in 1..fmt.size |->
            (value \div Power(ByteRadix, fmt.size - i)) % ByteRadix]

pack(fmt, value) ==
    IF fmt.kind = "bool" THEN <<IF value # 0 THEN 1 ELSE 0>>
    ELSE [i \in 1..fmt.size |-> (value \div Power(ByteRadix, i - 1)) % ByteRadix]

RECURSIVE Unsigned(_)
\* the number a little-endian byte sequence stands for
Unsigned(data) ==
    IF data = <<>> THEN 0 ELSE Head(data) + ByteRadix * Unsigned(Tail(data))

\* struct.unpack(type_format, data)[0], line 177
unpack(fmt, data) ==
    IF fmt.kind = "bool" THEN (IF data[1] # 0 THEN 1 ELSE 0)
    ELSE IF fmt.kind = "int" /\ Unsigned(data) > MaxValue(fmt)
         THEN Unsigned(data) - Power(ByteRadix, fmt.size)
         ELSE Unsigned(data)

\* the bytes of the target at address .. address + size - 1
Slice(m, address, size) == [i \in 1..size |-> m[address + i - 1]]

\* ReadProcessMemory / WriteProcessMemory succeed, as a whole, on a live
\* process and a range that is mapped
Accessible(address, size) ==
    /\ running
    /\ address >= 0
    /\ address + size <= MemSize

\* ---- the operations and their arguments ----

NoOp == [op |-> "none", address |-> 0, data_type |-> "", value |-> 0,
         bytes |-> <<>>, size |-> 0]

\* an address every access of at most MemSize bytes succeeds at, and one
\* that is not mapped
Addresses == {0, MemSize}

\* type identifiers: those of the table whose values the model encodes
\* (the integers and the boolean; an IEEE-754 value is not modelled), and
\* identifiers the table does not know
IntegerTypes ==
    {"int8", "uint8", "int16", "uint16", "int32", "uint32", "int64", "uint64"}

UnknownTypes == {"string", ""}

\* per type: its extreme values and their neighbours on either side
ValuesOf(data_type) ==
    IF data_type = "bool" THEN {0, 1}
    ELSE IF data_type \in IntegerTypes
    THEN LET fmt == Lookup(data_type) IN
           {MinValue(fmt) - 1, MinValue(fmt), 1, MaxValue(fmt),
            MaxValue(fmt) + 1}
    ELSE {1}

TypedReads ==
    {[NoOp EXCEPT !.op = "read_typed", !.address = a, !.data_type = t] :
        a \in Addresses, t \in IntegerTypes \cup {"bool"} \cup UnknownTypes}

TypedWritesOf(t) ==
    {[NoOp EXCEPT !.op = "write_typed", !.address = a, !.data_type = t,
                  !.value = v] : a \in Addresses, v \in ValuesOf(t)}

TypedWrites ==
    UNION {TypedWritesOf(t) : t \in IntegerTypes \cup {"bool"} \cup UnknownTypes}

ByteReads ==
    {[NoOp EXCEPT !.op = "read_bytes", !.address = a, !.size = n] :
        a \in {0, MemSize - 1}, n \in {1, 3}}

ByteWrites ==
    {[NoOp EXCEPT !.op = "write_bytes", !.address = a, !.bytes = b] :
        a \in {0, MemSize - 1}, b \in {<<1>>, <<1, 0, 1>>}}

\* the address VirtualAllocEx hands out
AllocAddress == 64

Allocations ==
    {[NoOp EXCEPT !.op = "allocate", !.size = 4],
     [NoOp EXCEPT !.op = "free", !.address = AllocAddress]}

IsWrite(o) == o.op \in {"write_typed", "write_bytes"}

\* ---- results ----

NoResult == [kind |-> "none"]
Returned(v) == [kind |-> "ok", value |-> v]
Raised(e) == [kind |-> e]
RaisedWith(e, a) == [kind |-> e, arg |-> a]

NoRequest == [call |-> "none", address |-> 0, size |-> 0, data |-> <<>>]

\* run_in_executor(func, ...), lines 38-42: func runs on the executor
Request(call, address, size, data) ==
    [call |-> call, address |-> address, size |-> size, data |-> data]

\* an OS call: which, on which thread, whether it succeeded, and the range
\* it was about
OsCall(call, thread, ok, address, size) ==
    [call |-> call, thread |-> thread, ok |-> ok, address |-> address,
     size |-> size]

\* is_running, lines 31-35: the OS's answer for the held handle
is_running == running

\* read_bytes lines 149-155 and write_bytes lines 164-169: what the
\* operation raises once the executor's call has raised pymem's error;
\* alive is is_running's answer.
ClassifySwapped(call, address, alive) ==
    IF alive THEN Raised("ClientClosedError")
    ELSE IF call = "read_bytes" THEN RaisedWith("MemoryReadError", address)
    ELSE RaisedWith("MemoryWriteError", address)

Classify(call, address, alive) ==
    IF ~alive THEN Raised("ClientClosedError")
    ELSE IF call = "read_bytes" THEN RaisedWith("MemoryReadError", address)
    ELSE RaisedWith("MemoryWriteError", address)

\* The operation leaves the scheduler's thread with a call for the
\* executor (read_bytes line 148, write_bytes lines 161-163, allocate line
\* 140, free line 143), or ends at once.
Dispatch(req) ==
    /\ ioreq' = req
    /\ iopc' = "executor"
    /\ iores' = NoResult

EndWith(res) ==
    /\ ioreq' = NoRequest
    /\ iopc' = "done"
    /\ iores' = res

\* read_typed, lines 171-176, up to the suspension in read_bytes
read_typed_call(o) ==
    LET type_format == Lookup(o.data_type) IN
      IF type_format = NoFormat
      THEN EndWith(Raised("ValueError"))
      ELSE Dispatch(Request("read_bytes", o.address, type_format.size, <<>>))

\* write_typed, lines 179-185, up to the suspension in write_bytes
write_typed_unchecked(o) ==
    LET type_format == LookupAny(o.data_type) IN
      IF ~Packable(type_format, o.value)
      THEN EndWith(Raised("struct.error"))
      ELSE LET packed_data == pack(type_format, o.value) IN
             Dispatch(Request("write_bytes", o.address, Len(packed_data),
                              packed_data))

write_typed_wrapping(o) ==
    LET type_format == Lookup(o.data_type) IN
      IF type_format = NoFormat
      THEN EndWith(Raised("ValueError"))
      ELSE LET packed_data == pack(type_format, o.value) IN
             Dispatch(Request("write_bytes", o.address, Len(packed_data),
                              packed_data))

write_typed_call(o) ==
    LET type_format == Lookup(o.data_type) IN
      IF type_format = NoFormat
      THEN EndWith(Raised("ValueError"))
      ELSE IF ~Packable(type_format, o.value)
      THEN EndWith(Raised("struct.error"))
      ELSE LET packed_data == pack(type_format, o.value) IN
             Dispatch(Request("write_bytes", o.address, Len(packed_data),
                              packed_data))

\* A call of an operation of the reader, up to its first suspension point.
IOCall(o) ==
    /\ iopc \in {"idle", "done"}
    /\ IsWrite(o) => nwrites < MaxWrites
    /\ ioop' = o
    /\ oscalls' = <<>>
    /\ ioret' = NoResult
    /\ nwrites' = IF IsWrite(o) THEN nwrites + 1 ELSE nwrites
    /\ CASE o.op = "read_typed" -> read_typed_call(o)
         [] o.op = "write_typed" -> write_typed_call(o)
         [] o.op = "read_bytes" ->
              Dispatch(Request("read_bytes", o.address, o.size, <<>>))
         [] o.op = "write_bytes" ->
              Dispatch(Request("write_bytes", o.address, Len(o.bytes), o.bytes))
         [] o.op = "allocate" ->
              Dispatch(Request("allocate", 0, o.size, <<>>))
         [] o.op = "free" ->
              Dispatch(Request("free", o.address, 0, <<>>))
    /\ UNCHANGED <<running, mem, live>>
    /\ UNCHANGED <<mouseVars, scanVars>>

Overlaps(l, address, size) ==
    /\ l.address < address + size
    /\ address < l.address + Lookup(l.data_type).size

\* The executor runs the blocking call: pymem's read_bytes, write_bytes,
\* allocate or free on the process handle.  A read or a write is all or
\* nothing and raises pymem's MemoryReadError / MemoryWriteError when the
\* OS refuses it.
ExecutorRun ==
    /\ iopc = "executor"
    /\ iopc' = "resume"
    /\ LET r == ioreq
           ok == Accessible(r.address, r.size)
       IN
         CASE r.call = "read_bytes" ->
                /\ oscalls' = Append(oscalls,
                        OsCall("ReadProcessMemory", "executor", ok, r.address, r.size))
                /\ ioret' = IF ok THEN Returned(Slice(mem, r.address, r.size))
                            ELSE Raised("pymem.MemoryReadError")
                /\ UNCHANGED <<mem, live>>
           [] r.call = "write_bytes" ->
                /\ oscalls' = Append(oscalls,
                        OsCall("WriteProcessMemory", "executor", ok, r.address, r.size))
                /\ ioret' = IF ok THEN Returned(<<>>)
                            ELSE Raised("pymem.MemoryWriteError")
                /\ mem' = IF ok
                          THEN [a \in Addr |->
                                  IF r.address <= a /\ a < r.address + r.size
                                  THEN r.data[a - r.address + 1] ELSE mem[a]]
                          ELSE mem
                /\ live' = IF ok
                           THEN {l \in live : ~Overlaps(l, r.address, r.size)}
                                \cup (IF ioop.op = "write_typed"
                                      THEN {[address |-> ioop.address,
                                             data_type |-> ioop.data_type,
                                             value |-> ioop.value]}
                                      ELSE {})
                           ELSE live
           [] r.call = "allocate" ->
                /\ oscalls' = Append(oscalls,
                        OsCall("VirtualAllocEx", "executor", running, 0, r.size))
                /\ ioret' = Returned(IF running THEN AllocAddress ELSE 0)
                /\ UNCHANGED <<mem, live>>
           [] r.call = "free" ->
                /\ oscalls' = Append(oscalls,
                        OsCall("VirtualFreeEx", "executor", running, r.address, 0))
                /\ ioret' = Returned(<<>>)
                /\ UNCHANGED <<mem, live>>
    /\ UNCHANGED <<running, ioop, ioreq, iores, nwrites>>
    /\ UNCHANGED <<mouseVars, scanVars>>

\* The coroutine resumes on the scheduler's thread with the executor's
\* result: read_bytes lines 148-155, write_bytes lines 164-169, then
\* read_typed line 177.  After pymem's error is_running is called in place.
ResumeChecksAlways ==
    /\ iopc = "resume"
    /\ iopc' = "done"
    /\ oscalls' = Append(oscalls,
            OsCall("is_running", "scheduler", is_running, 0, 0))
    /\ iores' = IF ioret.kind # "ok"
                THEN Classify(ioreq.call, ioreq.address, is_running)
                ELSE IF ioop.op = "read_typed"
                THEN Returned(unpack(Lookup(ioop.data_type), ioret.value))
                ELSE ioret
    /\ UNCHANGED <<running, mem, ioop, ioreq, ioret, nwrites, live>>
    /\ UNCHANGED <<mouseVars, scanVars>>

Resume ==
    /\ iopc = "resume"
    /\ iopc' = "done"
    /\ IF ioret.kind = "ok"
       THEN /\ iores' = IF ioop.op = "read_typed"
                        THEN Returned(unpack(Lookup(ioop.data_type), ioret.value))
                        ELSE ioret
            /\ UNCHANGED oscalls
       ELSE /\ oscalls' = Append(oscalls,
                    OsCall("is_running", "scheduler", is_running, 0, 0))
            /\ iores' = Classify(ioreq.call, ioreq.address, is_running)
    /\ UNCHANGED <<running, mem, ioop, ioreq, ioret, nwrites, live>>
    /\ UNCHANGED <<mouseVars, scanVars>>

\* The target process exits; nothing brings it back.
ProcessExit ==
    /\ running
    /\ running' = FALSE
    /\ UNCHANGED <<mem, iopc, ioop, ioreq, ioret, iores, oscalls, nwrites, live>>
    /\ UNCHANGED <<mouseVars, scanVars>>

\* MemoryReader.__init__, lines 28-29, on a live process
InitIO ==
    /\ running = TRUE
    /\ mem = [a \in Addr |-> (a + 1) % ByteRadix]
    /\ iopc = "idle"
    /\ ioop = NoOp
    /\ ioreq = NoRequest
    /\ ioret = NoResult
    /\ iores = NoResult
    /\ oscalls = <<>>
    /\ nwrites = 0
    /\ live = {}

NextIO ==
    \/ \E o \in TypedReads \cup TypedWrites \cup ByteReads \cup ByteWrites
                \cup Allocations : IOCall(o)
    \/ ExecutorRun
    \/ Resume
    \/ ProcessExit

-----------------------------------------------------------------------------
(***************************************************************************)
(* MemoryReader: pattern scan                                              *)
(***************************************************************************)

\* The address space is the null page, NumRegions regions of RegionBytes
\* bytes each and a free tail that ends at the ceiling of user space.
\* Region i of the NumRegions starts at i * RegionBytes.
TailBytes == 3

\* _scan_all_from, line 84: the ceiling of the whole-process scan
\* (0x7FFFFFFF0000 in the program: the end of the last region of user
\* space)
Ceiling == (NumRegions + 1) * RegionBytes + TailBytes

\* _scan_page_return_all, lines 48-53
allowed_protections ==
    {"PAGE_EXECUTE_READ", "PAGE_EXECUTE_READWRITE", "PAGE_READWRITE",
     "PAGE_READONLY"}

Region(base, size, state, protect, bytes) ==
    [base |-> base, size |-> size, state |-> state, protect |-> protect,
     bytes |-> bytes]

FreeRegion(base, size) == Region(base, size, "MEM_FREE", "PAGE_NOACCESS", <<>>)

\* what a committed region of n bytes holds: no 1, a 1 in its last byte,
\* or 1 everywhere
Contents(n) ==
    {[i \in 1..n |-> 0], [i \in 1..n |-> IF i = n THEN 1 ELSE 0],
     [i \in 1..n |-> 1]}

\* the byte b"\n", which "." of a regular expression does not match
\* unless re.DOTALL is given
Newline == 10

\* a 1 followed by newlines
NewlineContents(n) == [i \in 1..n |-> IF i = 1 THEN 1 ELSE Newline]

\* what the first region may be: committed under any of the protections
\* that let one read, with any of the contents, committed copy-on-write
\* (the OS would read it, the scan does not), or a region the OS refuses
\* to read (committed without read access, reserved, free)
FirstRegions(base) ==
    {Region(base, RegionBytes, "MEM_COMMIT", p, b) :
        p \in allowed_protections, b \in Contents(RegionBytes)}
    \cup {Region(base, RegionBytes, "MEM_COMMIT", "PAGE_READWRITE",
                 NewlineContents(RegionBytes)),
          Region(base, RegionBytes, "MEM_COMMIT", "PAGE_WRITECOPY",
                 [i \in 1..RegionBytes |-> 1])}
    \cup {Region(base, RegionBytes, "MEM_COMMIT", "PAGE_NOACCESS", <<>>),
          Region(base, RegionBytes, "MEM_COMMIT", "PAGE_EXECUTE", <<>>),
          Region(base, RegionBytes, "MEM_RESERVE", "0", <<>>),
          FreeRegion(base, RegionBytes)}

\* what the other regions may be: read-write with any of the contents,
\* or free
OtherRegions(base) ==
    {Region(base, RegionBytes, "MEM_COMMIT", "PAGE_READWRITE", b) :
        b \in Contents(RegionBytes)}
    \cup {FreeRegion(base, RegionBytes)}

RECURSIVE RegionRuns(_)
\* the runs of regions 2..n
RegionRuns(n) ==
    IF n < 2 THEN {<<>>}
    ELSE {l \o <<r>> : l \in RegionRuns(n - 1),
                       r \in OtherRegions(n * RegionBytes)}

\* The address spaces of the model.
Layouts ==
    {<<FreeRegion(0, RegionBytes), first>> \o rest
       \o <<FreeRegion((NumRegions + 1) * RegionBytes, TailBytes)>> :
     first \in FirstRegions(RegionBytes), rest \in RegionRuns(NumRegions)}

\* the loaded modules: the executable (the process base) over the first two
\* regions, a library over the third, and a module whose image ends one
\* byte before the end of the region it starts
Modules ==
    [main |-> [lpBaseOfDll |-> RegionBytes, SizeOfImage |-> 2 * RegionBytes],
     lib |-> [lpBaseOfDll |-> 3 * RegionBytes, SizeOfImage |-> RegionBytes],
     plugin |-> [lpBaseOfDll |-> 4 * RegionBytes,
                 SizeOfImage |-> RegionBytes - 1]]

NoModule == [lpBaseOfDll |-> -1, SizeOfImage |-> 0]

\* pymem.process.module_from_name: the module's info, or None
module_from_name(name) ==
    IF name \in DOMAIN Modules THEN Modules[name] ELSE NoModule

\* self.process.process_base.lpBaseOfDll, line 123
process_base == Modules["main"].lpBaseOfDll

\* a wildcard position of a pattern, "." in the regular expression
Wildcard == -1

Patterns == {<<1>>, <<1, Wildcard>>}

ScanArgs ==
    [pattern : Patterns, module : {"", "main", "lib", "plugin", "gone"},
     return_multiple : BOOLEAN]

NoScanArgs == [pattern |-> <<1>>, module |-> "", return_multiple |-> FALSE]

\* pymem.memory.virtual_query, line 46: the region the address lies in,
\* from the address on
virtual_query_empty(address) ==
    [BaseAddress |-> address, RegionSize |-> 0, state |-> "MEM_FREE",
     protect |-> "PAGE_NOACCESS", bytes |-> <<>>]

virtual_query(address) ==
    LET r == CHOOSE r \in 1..Len(regions) :
                /\ regions[r].base <= address
                /\ address < regions[r].base + regions[r].size
    IN [BaseAddress |-> address,
        RegionSize |-> regions[r].base + regions[r].size - address,
        state |-> regions[r].state,
        protect |-> regions[r].protect,
        bytes |-> SubSeq(regions[r].bytes, address - regions[r].base + 1,
                         Len(regions[r].bytes))]

\* whether the regular expression matches the bytes at offset pos
\* (0-based), line 64: re.finditer is called without flags, so the
\* wildcard "." matches every byte but the newline
MatchesAt(pattern, bytes, pos) ==
    /\ pos + Len(pattern) <= Len(bytes)
    /\ \A i \in 1..Len(pattern) :
          \/ pattern[i] = Wildcard /\ bytes[pos + i] # Newline
          \/ pattern[i] = bytes[pos + i]

RECURSIVE finditer(_, _, _)
\* re.finditer(pattern, page_bytes), line 64: the offsets of the
\* non-overlapping matches, left to right, from offset pos on
finditer(pattern, bytes, pos) ==
    IF pos + Len(pattern) > Len(bytes) THEN <<>>
    ELSE IF MatchesAt(pattern, bytes, pos)
         THEN <<pos>> \o finditer(pattern, bytes, pos + Len(pattern))
         ELSE finditer(pattern, bytes, pos + 1)

\* ReadProcessMemory succeeds on committed pages that are not protected
\* against reading
OsReadable(mbi) ==
    /\ mbi.state = "MEM_COMMIT"
    /\ mbi.protect \notin {"PAGE_NOACCESS", "PAGE_EXECUTE", "0"}

\* _scan_page_return_all, lines 54-57: the region is skipped
SkippedUncommitted(mbi) == mbi.state # "MEM_COMMIT"

Skipped(mbi) ==
    \/ mbi.state # "MEM_COMMIT"
    \/ mbi.protect \notin allowed_protections

\* _scan_page_return_all reporting the offsets of the matches in the
\* region's bytes
ScanPageOffsets(address, pattern) ==
    LET mbi == virtual_query(address)
        next_region == mbi.BaseAddress + mbi.RegionSize
        query == OsCall("VirtualQueryEx", "executor", TRUE, address, 0)
        readable == OsReadable(mbi)
        read == OsCall("ReadProcessMemory", "executor", readable, address,
                       mbi.RegionSize)
        offsets == finditer(pattern, mbi.bytes, 0)
    IN IF Skipped(mbi)
       THEN [next_region |-> next_region, read |-> FALSE, raised |-> FALSE,
             found |-> <<>>, calls |-> <<query>>]
       ELSE IF ~readable
       THEN [next_region |-> next_region, read |-> TRUE, raised |-> TRUE,
             found |-> <<>>, calls |-> <<query, read>>]
       ELSE [next_region |-> next_region, read |-> TRUE, raised |-> FALSE,
             found |-> offsets, calls |-> <<query, read>>]

\* _scan_page_return_all, lines 45-72.  next_region, the addresses found
\* (read is FALSE when the region was skipped and None returned), and the
\* OS calls made, on the executor.  raised: pymem.memory.read_bytes raises
\* when the OS refuses the read.
_scan_page_return_all(address, pattern) ==
    LET mbi == virtual_query(address)
        next_region == mbi.BaseAddress + mbi.RegionSize
        query == OsCall("VirtualQueryEx", "executor", TRUE, address, 0)
        readable == OsReadable(mbi)
        read == OsCall("ReadProcessMemory", "executor", readable, address,
                       mbi.RegionSize)
        offsets == finditer(pattern, mbi.bytes, 0)
    IN IF Skipped(mbi)
       THEN [next_region |-> next_region, read |-> FALSE, raised |-> FALSE,
             found |-> <<>>, calls |-> <<query>>]
       ELSE IF ~readable
       THEN [next_region |-> next_region, read |-> TRUE, raised |-> TRUE,
             found |-> <<>>, calls |-> <<query, read>>]
       ELSE [next_region |-> next_region, read |-> TRUE, raised |-> FALSE,
             found |-> [i \in 1..Len(offsets) |-> address + offsets[i]],
             calls |-> <<query, read>>]

\* where the scan loop stops: _scan_all_from line 84, _scan_entire_module
\* lines 98 and 102
max_address ==
    IF scargs.module # "" THEN module.lpBaseOfDll + module.SizeOfImage
    ELSE Ceiling

\* _scan_all_from, lines 91-92: the whole-process scan leaves the loop at
\* the first match unless all matches were asked for; _scan_entire_module
\* has no such exit.
StopsEarlyAlways(a, fnd) == ~a.return_multiple /\ fnd # <<>>

StopsEarlyNever(a, fnd) == FALSE

StopsEarly(a, fnd) == a.module = "" /\ ~a.return_multiple /\ fnd # <<>>

\* pattern_scan, lines 129-137: the result from the addresses found
ResultPolicyFirst(pattern, found_addresses, return_multiple) ==
    IF Len(found_addresses) = 0 THEN RaisedWith("PatternFailed", pattern)
    ELSE IF return_multiple THEN Returned(found_addresses)
    ELSE Returned(found_addresses[1])

ResultPolicyEmptyList(pattern, found_addresses, return_multiple) ==
    IF Len(found_addresses) > 1 /\ ~return_multiple
    THEN Raised("PatternMultipleResults")
    ELSE IF return_multiple THEN Returned(found_addresses)
    ELSE IF Len(found_addresses) = 0 THEN RaisedWith("PatternFailed", pattern)
    ELSE Returned(found_addresses[1])

ResultPolicy(pattern, found_addresses, return_multiple) ==
    IF Len(found_addresses) = 0 THEN RaisedWith("PatternFailed", pattern)
    ELSE IF Len(found_addresses) > 1 /\ ~return_multiple
    THEN Raised("PatternMultipleResults")
    ELSE IF return_multiple THEN Returned(found_addresses)
    ELSE Returned(found_addresses[1])

\* pattern_scan, lines 111-127, up to the suspension in run_in_executor.
\* A module is looked up in place, on the scheduler's thread; a module
\* that is not loaded gives None, and the scan raises AttributeError on
\* the executor.
ScanCall(a) ==
    /\ scpc \in {"idle", "done"}
    /\ scargs' = a
    /\ found' = <<>>
    /\ scres' = NoResult
    /\ IF a.module # ""
       THEN /\ module' = module_from_name(a.module)
            /\ oscalls' = <<OsCall("module_from_name", "scheduler", TRUE, 0, 0)>>
            /\ cursor' = module'.lpBaseOfDll
            /\ scpc' = IF module' = NoModule THEN "raised"
                       ELSE IF module'.SizeOfImage > 0 THEN "scan"
                       ELSE "resume"
       ELSE /\ module' = NoModule
            /\ oscalls' = <<>>
            /\ cursor' = process_base
            /\ scpc' = IF process_base < Ceiling THEN "scan" ELSE "resume"
    /\ UNCHANGED regions
    /\ UNCHANGED <<mouseVars, ioVars_but_oscalls>>

\* One turn of the loop of _scan_all_from (lines 84-92) or of
\* _scan_entire_module (lines 102-107), on the executor.
ScanStep ==
    /\ scpc = "scan"
    /\ LET page == _scan_page_return_all(cursor, scargs.pattern)
           fnd == found \o page.found
       IN /\ oscalls' = oscalls \o page.calls
          /\ cursor' = page.next_region
          /\ found' = fnd
          /\ scpc' = IF page.raised THEN "raised"
                     ELSE IF StopsEarly(scargs, fnd) THEN "resume"
                     ELSE IF page.next_region < max_address THEN "scan"
                     ELSE "resume"
    /\ UNCHANGED <<regions, scargs, module, scres>>
    /\ UNCHANGED <<mouseVars, ioVars_but_oscalls>>

\* pattern_scan, lines 129-137: the coroutine resumes with the addresses
\* found.
ScanResume ==
    /\ scpc = "resume"
    /\ scpc' = "done"
    /\ scres' = ResultPolicy(scargs.pattern, found, scargs.return_multiple)
    /\ UNCHANGED <<regions, scargs, module, cursor, found, oscalls>>
    /\ UNCHANGED <<mouseVars, ioVars_but_oscalls>>

\* pattern_scan resumes with the exception the executor's call raised.
ScanRaised ==
    /\ scpc = "raised"
    /\ scpc' = "done"
    /\ scres' = IF module = NoModule /\ scargs.module # ""
                THEN Raised("AttributeError") ELSE Raised("WinAPIError")
    /\ UNCHANGED <<regions, scargs, module, cursor, found, oscalls>>
    /\ UNCHANGED <<mouseVars, ioVars_but_oscalls>>

InitScan ==
    /\ scpc = "idle"
    /\ scargs = NoScanArgs
    /\ module = NoModule
    /\ cursor = 0
    /\ found = <<>>
    /\ scres = NoResult

NextScan ==
    \/ \E a \in ScanArgs : ScanCall(a)
    \/ ScanStep
    \/ ScanResume
    \/ ScanRaised

\* an address space whose regions are all free
EmptySpace == <<FreeRegion(0, Ceiling)>>

\* the state after construction of the handler and of the reader
Init == InitMouse /\ InitIO /\ InitScan /\ regions = EmptySpace

\* the same, attached to any of the address spaces
InitAttached == InitMouse /\ InitIO /\ InitScan /\ regions \in Layouts

SpecScan == InitAttached /\ [][NextScan]_vars

SpecIO == Init /\ [][NextIO]_vars

SpecClick == Init /\ [][NextClick]_vars

SpecMouse == Init /\ [][NextMouse]_vars

\* The scheduler runs every coroutine that is ready, the hook layer's
\* write and asyncio.sleep end.
SpecClickFair ==
    /\ SpecClick
    /\ \A t \in Clicks :
        /\ WF_vars(\E c \in BOOLEAN : ClickAcquired(t, c))
        /\ WF_vars(\E w \in BOOLEAN : PositionWritten(t, w))
        /\ WF_vars(SleepOver(t))

-----------------------------------------------------------------------------
(* Claims about the pattern scan *)

\* the region's bytes may be read: committed, and protected in one of the
\* four ways that allow it
IsReadable(r) ==
    /\ r.state = "MEM_COMMIT"
    /\ r.protect \in {"PAGE_EXECUTE_READ", "PAGE_EXECUTE_READWRITE",
                      "PAGE_READWRITE", "PAGE_READONLY"}

\* the addresses of the pattern's matches in region r
MatchesIn(r, pattern) ==
    IF IsReadable(r)
    THEN LET offsets == finditer(pattern, r.bytes, 0) IN
           [i \in 1..Len(offsets) |-> r.base + offsets[i]]
    ELSE <<>>

\* the regions that start in [lo, hi)
RegionsIn(lo, hi) ==
    {i \in 1..Len(regions) : lo <= regions[i].base /\ regions[i].base < hi}

\* those of them the pattern matches in
MatchingRegions(lo, hi, pattern) ==
    {i \in RegionsIn(lo, hi) : MatchesIn(regions[i], pattern) # <<>>}

RECURSIVE MatchesUpTo(_, _, _, _)
\* the matches in the regions 1..n that start in [lo, hi), by address
MatchesUpTo(n, lo, hi, pattern) ==
    IF n = 0 THEN <<>>
    ELSE MatchesUpTo(n - 1, lo, hi, pattern)
         \o (IF n \in RegionsIn(lo, hi) THEN MatchesIn(regions[n], pattern)
             ELSE <<>>)

\* the region queries of the scan, in order
Queried == SelectSeq(oscalls, LAMBDA c : c.call = "VirtualQueryEx")
Min(S) == CHOOSE x \in S : \A y \in S : x <= y

ScanOver == scpc = "done" /\ scres.kind \notin {"AttributeError", "WinAPIError"}

WholeProcess == scargs.module = ""

\* the range a scan is to cover
ScanLow == IF WholeProcess THEN process_base ELSE module.lpBaseOfDll
ScanHigh ==
    IF WholeProcess THEN Ceiling ELSE module.lpBaseOfDll + module.SizeOfImage

\* C2: a whole-process scan with return_multiple false over an address
\* space with matching regions (three, or any number) collects the matches
\* of the first matching region at or above the process base only, returns
\* that region's address when it holds one match, and neither queries nor
\* reads a region after it.
C2_WholeScanStopsAtFirstMatch ==
    (/\ ScanOver
     /\ WholeProcess
     /\ ~scargs.return_multiple
     /\ MatchingRegions(process_base, Ceiling, scargs.pattern) # {})
    => LET first == regions[Min(MatchingRegions(process_base, Ceiling,
                                                scargs.pattern))]
       IN /\ found = MatchesIn(first, scargs.pattern)
          /\ Len(found) = 1 => scres = Returned(found[1])
          /\ \A i \in 1..Len(oscalls) : oscalls[i].address <= first.base

\* C2's case: three regions hold a match, the first of them exactly one,
\* and the scan has returned.
C2_Witness ==
    /\ ScanOver
    /\ WholeProcess
    /\ ~scargs.return_multiple
    /\ Cardinality(MatchingRegions(process_base, Ceiling, scargs.pattern)) = 3
    /\ scres.kind = "ok"

\* C3, as stated: a scan (whole-process or module) whose pattern matches in
\* exactly two regions fails with PatternMultipleResults when
\* return_multiple is false.
C3_TwoMatchingRegionsAmbiguous ==
    (/\ ScanOver
     /\ ~scargs.return_multiple
     /\ Cardinality(MatchingRegions(ScanLow, ScanHigh, scargs.pattern)) = 2)
    => scres = Raised("PatternMultipleResults")

\* C3, amended: with return_multiple false and matches in exactly two
\* regions, a module scan fails with PatternMultipleResults; a
\* whole-process scan does so exactly when the first of the two regions
\* holds more than one match, and returns that region's match otherwise.
C3_ModuleScanAmbiguous ==
    (/\ ScanOver
     /\ ~scargs.return_multiple
     /\ Cardinality(MatchingRegions(ScanLow, ScanHigh, scargs.pattern)) = 2)
    => LET first == regions[Min(MatchingRegions(ScanLow, ScanHigh,
                                                scargs.pattern))]
           matches == MatchesIn(first, scargs.pattern)
       IN IF ~WholeProcess \/ Len(matches) > 1
          THEN scres = Raised("PatternMultipleResults")
          ELSE scres = Returned(matches[1])

\* C3's case: a module scan over two regions that hold one match each.
C3_Witness ==
    /\ ScanOver
    /\ ~WholeProcess
    /\ ~scargs.return_multiple
    /\ Cardinality(MatchingRegions(ScanLow, ScanHigh, scargs.pattern)) = 2
    /\ Len(found) = 2

\* C4: the result of pattern_scan follows from the addresses found and
\* return_multiple: none found raises PatternFailed with the pattern, in
\* both modes; more than one with return_multiple false raises
\* PatternMultipleResults; exactly one with return_multiple false returns
\* that address itself; return_multiple true returns the whole list.
C4_ResultPolicy ==
    ScanOver =>
      /\ Len(found) = 0 => scres = RaisedWith("PatternFailed", scargs.pattern)
      /\ (Len(found) > 1 /\ ~scargs.return_multiple)
            => scres = Raised("PatternMultipleResults")
      /\ (Len(found) = 1 /\ ~scargs.return_multiple)
            => scres = Returned(found[1])
      /\ (Len(found) > 0 /\ scargs.return_multiple)
            => scres = Returned(found)

\* C4's case: a scan that asked for all matches and found none.
C4_Witness ==
    /\ ScanOver
    /\ scargs.return_multiple
    /\ Len(found) = 0
    /\ \E i \in 1..Len(oscalls) : oscalls[i].call = "ReadProcessMemory"

\* C5: a module scan queries every region that starts in the module's
\* range, in order, and collects every match in them, whatever
\* return_multiple is.
C5_ModuleScanCoversImage ==
    (ScanOver /\ ~WholeProcess)
    => /\ {Queried[i].address : i \in 1..Len(Queried)}
            = {regions[i].base : i \in RegionsIn(ScanLow, ScanHigh)}
       /\ \A i, j \in 1..Len(Queried) :
            i < j => Queried[i].address < Queried[j].address
       /\ found = MatchesUpTo(Len(regions), ScanLow, ScanHigh, scargs.pattern)

\* C5's case: a module scan with return_multiple false whose first region
\* holds a match, and a later region another.
C5_Witness ==
    /\ ScanOver
    /\ ~WholeProcess
    /\ ~scargs.return_multiple
    /\ Cardinality(RegionsIn(ScanLow, ScanHigh)) = 2
    /\ Cardinality(MatchingRegions(ScanLow, ScanHigh, scargs.pattern)) = 2

\* the region an address lies in
RegionAt(address) ==
    regions[CHOOSE i \in 1..Len(regions) :
               /\ regions[i].base <= address
               /\ address < regions[i].base + regions[i].size]

\* the reads of the scan
Reads == SelectSeq(oscalls, LAMBDA c : c.call = "ReadProcessMemory")

\* C12: a region that is not committed, or whose protection is none of
\* execute-read, execute-read-write, read-write and read-only, is never
\* read: no read touches its bytes, no address found lies in it, and the
\* query of it is followed by the query at its base plus its size (the
\* cursor stands there when it was the last).
C12_UnreadableRegionNeverRead ==
    \A i \in 1..Len(oscalls) :
        (/\ oscalls[i].call = "VirtualQueryEx"
         /\ ~IsReadable(RegionAt(oscalls[i].address)))
        => LET r == RegionAt(oscalls[i].address) IN
             /\ \A j \in 1..Len(Reads) :
                   \/ Reads[j].address + Reads[j].size <= r.base
                   \/ r.base + r.size <= Reads[j].address
             /\ \A k \in 1..Len(found) :
                   found[k] < r.base \/ r.base + r.size <= found[k]
             /\ IF i < Len(oscalls)
                THEN /\ oscalls[i + 1].call = "VirtualQueryEx"
                     /\ oscalls[i + 1].address = r.base + r.size
                ELSE cursor = r.base + r.size

\* C12's case: the scan went over a copy-on-write region full of bytes
\* the pattern matches, and found its matches in a later region.
C12_Witness ==
    /\ ScanOver
    /\ scargs.return_multiple
    /\ \E i \in 1..Len(Queried) :
          LET r == RegionAt(Queried[i].address) IN
            /\ r.protect = "PAGE_WRITECOPY"
            /\ MatchesAt(scargs.pattern, r.bytes, 0)
    /\ found # <<>>

\* the regions the scan has read
ReadRegions == {i \in 1..Len(regions) :
                   \E j \in 1..Len(Reads) : Reads[j].address = regions[i].base}

\* C13: every address found is the base of a region the scan has read
\* plus an offset at which the pattern matches that region's bytes; and
\* the list a scan with return_multiple true returns holds, for every
\* region read and every match in it, base plus offset exactly once, and
\* nothing else.
C13_AddressIsBasePlusOffset ==
    /\ \A k \in 1..Len(found) :
          \E i \in ReadRegions :
              /\ IsReadable(regions[i])
              /\ found[k] - regions[i].base \in 0..(regions[i].size - 1)
              /\ MatchesAt(scargs.pattern, regions[i].bytes,
                           found[k] - regions[i].base)
    /\ (ScanOver /\ scargs.return_multiple /\ scres.kind = "ok")
       => /\ scres.value = found
          /\ \A i \in ReadRegions :
                LET offsets == finditer(scargs.pattern, regions[i].bytes, 0)
                IN \A o \in 1..Len(offsets) :
                     Cardinality({k \in 1..Len(found) :
                        found[k] = regions[i].base + offsets[o]}) = 1
    /\ (ScanOver /\ scargs.return_multiple /\ scres.kind # "ok")
       => \A i \in ReadRegions :
             finditer(scargs.pattern, regions[i].bytes, 0) = <<>>

\* C13's case: a scan with return_multiple true returned matches of two
\* regions, one of them at an offset above 0.
C13_Witness ==
    /\ ScanOver
    /\ scargs.return_multiple
    /\ scres.kind = "ok"
    /\ \E k, l \in 1..Len(scres.value) :
          /\ RegionAt(scres.value[k]) # RegionAt(scres.value[l])
          /\ scres.value[k] > RegionAt(scres.value[k]).base

\* whether the pattern occurs in the bytes at offset pos (0-based), an
\* exact position matching its own byte value only and a wildcard
\* position any byte value
OccursAt(pattern, bytes, pos) ==
    /\ pos + Len(pattern) <= Len(bytes)
    /\ \A i \in 1..Len(pattern) :
          pattern[i] = Wildcard \/ pattern[i] = bytes[pos + i]

RECURSIVE Occurrences(_, _, _)
\* the offsets of the non-overlapping occurrences, left to right, from
\* offset pos on
Occurrences(pattern, bytes, pos) ==
    IF pos + Len(pattern) > Len(bytes) THEN <<>>
    ELSE IF OccursAt(pattern, bytes, pos)
         THEN <<pos>> \o Occurrences(pattern, bytes, pos + Len(pattern))
         ELSE Occurrences(pattern, bytes, pos + 1)

\* C14: the addresses found in a region the scan has read are exactly
\* the non-overlapping occurrences of the pattern in its bytes, left to
\* right, where an exact position matches its own byte value only and a
\* wildcard position matches any byte value.
C14_MatchesAreTheOccurrences ==
    \A i \in ReadRegions :
        LET r == regions[i]
            occurrences == Occurrences(scargs.pattern, r.bytes, 0)
        IN SelectSeq(found,
                     LAMBDA f : r.base <= f /\ f < r.base + r.size)
           = [k \in 1..Len(occurrences) |-> r.base + occurrences[k]]

\* C19: every scan terminates.  Each turn of the loop, of the
\* whole-process scan and of the module scan alike, moves the cursor to
\* the base plus the size of the region it queried, which is above the
\* cursor; the loop runs only while the cursor is below the ceiling or
\* the module's end, and is left there or at the early stop; so no
\* region is queried twice and there are at most as many queries as
\* regions.
C19_ScanTerminates ==
    /\ [][scpc = "scan" =>
            /\ cursor' = RegionAt(cursor).base + RegionAt(cursor).size
            /\ cursor' > cursor
            /\ Len(Queried') = Len(Queried) + 1]_vars
    /\ [](scpc = "scan" => cursor < ScanHigh)
    /\ [](scpc = "resume" =>
            \/ cursor >= ScanHigh
            \/ WholeProcess /\ ~scargs.return_multiple /\ found # <<>>)
    /\ [](\A i, j \in 1..Len(Queried) :
            i < j => /\ Queried[i].address < Queried[j].address
                     /\ RegionAt(Queried[i].address)
                           # RegionAt(Queried[j].address))
    /\ [](Len(Queried) <= Len(regions))

\* C19's case: a whole-process scan has queried every region from the
\* process base to the ceiling and has returned.
C19_Witness ==
    /\ ScanOver
    /\ WholeProcess
    /\ cursor = Ceiling
    /\ Len(Queried) = Len(regions) - 1

\* C20: every address a module scan finds lies in the image, from the
\* module's base up to its base plus its size, and no read of the scan
\* touches a byte outside the image, also when the last region that
\* starts in the image ends after it.
C20_ModuleScanStaysInImage ==
    (~WholeProcess /\ module # NoModule)
    => /\ \A k \in 1..Len(found) :
             ScanLow <= found[k] /\ found[k] < ScanHigh
       /\ \A j \in 1..Len(Reads) :
             /\ ScanLow <= Reads[j].address
             /\ Reads[j].address + Reads[j].size <= ScanHigh

-----------------------------------------------------------------------------
(* Claims about byte-level and typed I/O *)

IsRead == ioop.op \in {"read_bytes", "read_typed"}

SyscallFailed == ioret.kind \notin {"ok", "none"}

\* C6: when the read (write) syscall has failed, the operation raises
\* ClientClosedError if the liveness check that follows finds the process
\* gone, and MemoryReadError (MemoryWriteError) with the caller's address
\* if it finds it alive.
C6_FailureClassification ==
    (iopc = "done" /\ SyscallFailed)
    => LET check == oscalls[Len(oscalls)] IN
         /\ check.call = "is_running"
         /\ ~check.ok => iores = Raised("ClientClosedError")
         /\ check.ok =>
              iores = RaisedWith(IF IsRead THEN "MemoryReadError"
                                 ELSE "MemoryWriteError", ioop.address)

\* C6's case: a write at an address that is not mapped, to a process that
\* is alive.
C6_Witness ==
    /\ iopc = "done"
    /\ SyscallFailed
    /\ running
    /\ ioop.op = "write_typed"
    /\ ioop.address = MemSize
    /\ iores.kind = "MemoryWriteError"

IsTyped == ioop.op \in {"read_typed", "write_typed"}

UnknownType == IsTyped /\ ioop.data_type \notin DOMAIN type_format_dict

\* C7: read_typed and write_typed called with a type identifier that is not
\* in the table raise ValueError, hand nothing to the executor, make no OS
\* call and leave the target's memory as it was.
C7_InvalidTypeNoIO ==
    /\ [](UnknownType =>
            /\ iopc = "done"
            /\ iores = Raised("ValueError")
            /\ ioreq = NoRequest
            /\ oscalls = <<>>)
    /\ [][UnknownType' => mem' = mem]_vars

\* C7's case: write_typed was called with an unknown type identifier.
C7_Witness ==
    /\ UnknownType
    /\ ioop.op = "write_typed"
    /\ iopc = "done"

\* the typed write at the address and of the type of the current operation
\* that no later write has touched
LiveHere == {l \in live : l.address = ioop.address
                          /\ l.data_type = ioop.data_type}

\* C8: read_typed returns the value the last successful write_typed of the
\* same type put at the address, if no write touched those bytes since;
\* and a write_typed changes the bytes address .. address + width - 1 to
\* the packed value, and no other byte.
C8_TypedRoundTrip ==
    /\ []((iopc = "done" /\ ioop.op = "read_typed" /\ iores.kind = "ok")
            => \A l \in LiveHere : iores.value = l.value)
    /\ [][(/\ iopc = "executor"
           /\ ioop.op = "write_typed"
           /\ iopc' = "resume"
           /\ ioret'.kind = "ok")
          => LET width == Lookup(ioop.data_type).size IN
               /\ ioreq.size = width
               /\ Len(ioreq.data) = width
               /\ \A a \in Addr :
                     (a < ioop.address \/ a >= ioop.address + width)
                        => mem'[a] = mem[a]
               /\ Slice(mem', ioop.address, width) = ioreq.data]_vars

\* C8's case: a negative value of more than one byte written and read
\* back.
C8_Witness ==
    /\ iopc = "done"
    /\ ioop.op = "read_typed"
    /\ iores.kind = "ok"
    /\ \E l \in LiveHere : l.value < 0 /\ Lookup(l.data_type).size > 1

\* C9: every blocking OS call of an operation of the reader runs on the
\* executor, none on the scheduler's thread.
C9_BlockingCallsOnExecutor ==
    \A i \in 1..Len(oscalls) : oscalls[i].thread = "executor"

\* the operation reads or writes process memory
IsReadOrWrite ==
    ioop.op \in {"read_bytes", "write_bytes", "read_typed", "write_typed"}

\* C17: liveness is asked for only after a read or write syscall has
\* failed: every liveness query in the log of OS calls stands right
\* after a failed read or write syscall; an operation that has returned
\* made its syscall and no liveness query; one that has raised after
\* its syscall made the failed syscall first and the liveness query
\* second.
C17_LivenessOnlyAfterFailure ==
    /\ \A i \in 1..Len(oscalls) :
          oscalls[i].call = "is_running"
          => /\ i > 1
             /\ oscalls[i - 1].call
                   \in {"ReadProcessMemory", "WriteProcessMemory"}
             /\ ~oscalls[i - 1].ok
    /\ (iopc = "done" /\ IsReadOrWrite /\ iores.kind = "ok")
       => /\ Len(oscalls) = 1
          /\ oscalls[1].call \in {"ReadProcessMemory", "WriteProcessMemory"}
          /\ oscalls[1].ok
    /\ (/\ iopc = "done"
        /\ iores.kind
             \in {"ClientClosedError", "MemoryReadError", "MemoryWriteError"})
       => /\ Len(oscalls) = 2
          /\ oscalls[1].call \in {"ReadProcessMemory", "WriteProcessMemory"}
          /\ ~oscalls[1].ok
          /\ oscalls[2].call = "is_running"

\* C17's case: a write has failed on a live process, and liveness was
\* asked for after the write syscall.
C17_Witness ==
    /\ iopc = "done"
    /\ iores.kind = "MemoryWriteError"
    /\ oscalls[1].call = "WriteProcessMemory"
    /\ oscalls[2].call = "is_running"
    /\ oscalls[2].ok

\* the value of the operation fits the width of its type
Encodable ==
    LET fmt == type_format_dict[ioop.data_type]
        values == Power(ByteRadix, fmt.size)
    IN CASE fmt.kind = "int" ->
              -(values \div 2) <= ioop.value /\ ioop.value < values \div 2
         [] fmt.kind = "uint" -> 0 <= ioop.value /\ ioop.value < values
         [] OTHER -> TRUE

\* the write_typed under way cannot encode: its type is unknown or its
\* value does not fit
FailsToEncode ==
    /\ ioop.op = "write_typed"
    /\ UnknownType \/ ~Encodable

\* C18: a write_typed whose type is unknown or whose value cannot be
\* encoded raises before anything is handed to the executor and leaves
\* the target's memory as it was; whenever a write_typed does hand a
\* write to the executor the whole encoded value is ready, so the one
\* write syscall is of the full width and no prefix is ever written.
C18_FailedEncodingWritesNothing ==
    /\ [](FailsToEncode =>
            /\ iopc = "done"
            /\ iores.kind \in {"ValueError", "struct.error"}
            /\ ioreq = NoRequest
            /\ oscalls = <<>>)
    /\ [][FailsToEncode' => mem' = mem]_vars
    /\ []((ioop.op = "write_typed" /\ ~FailsToEncode) =>
            /\ ioreq.call = "write_bytes"
            /\ ioreq.size = type_format_dict[ioop.data_type].size
            /\ Len(ioreq.data) = ioreq.size
            /\ \A i \in 1..Len(oscalls) :
                  oscalls[i].call = "WriteProcessMemory"
                  => i = 1 /\ oscalls[i].size = ioreq.size)

\* C18's case: a write_typed of a value one above the largest of its
\* two-byte type has raised.
C18_Witness ==
    /\ ioop.op = "write_typed"
    /\ ioop.data_type = "int16"
    /\ ioop.value > 0
    /\ ~Encodable
    /\ iopc = "done"
    /\ iores.kind = "struct.error"

-----------------------------------------------------------------------------
(* Claims about MouseHandler *)

\* invocation t is a call of click
IsClick(t) == "right_click" \in DOMAIN cargs[t]

\* invocation t converts its point from client coordinates
Converts(t) == IsClick(t) \/ cargs[t].convert_from_client

\* what invocation t sent to the hook layer and to the window, in order
EventsOf(t) == SelectSeq(events, LAMBDA e : e.task = t)

\* C11: when ClientToScreen reports failure set_mouse_position raises
\* RuntimeError (the conversion error), and neither a mouse position is
\* written to the hook layer nor a mouse-move sent; when it succeeds the
\* position written is the point moved by the window's origin, and a
\* mouse-move follows the write at once and is never sent without it.
C11_ConversionFailureWritesNothing ==
    \A t \in Clicks :
        /\ c2s[t] = "failed" =>
              /\ cpc[t] = "failed"
              /\ cerr[t] = "RuntimeError"
              /\ EventsOf(t) = <<>>
        /\ \A i \in 1..Len(events) :
              (/\ events[i].task = t
               /\ events[i].kind = "write_mouse_position"
               /\ Converts(t))
              => /\ c2s[t] = "ok"
                 /\ events[i].pos = <<cargs[t].point[1] + WindowOrigin,
                                      cargs[t].point[2] + WindowOrigin>>
        /\ \A i \in 1..Len(events) :
              (/\ events[i].task = t
               /\ events[i].kind = "message"
               /\ events[i].msg = WM_MOUSEMOVE)
              => /\ i > 1
                 /\ events[i - 1].task = t
                 /\ events[i - 1].kind = "write_mouse_position"
                 /\ mouse_pos = events[i - 1].pos
                    \/ \E j \in (i + 1)..Len(events) :
                          events[j].kind = "write_mouse_position"

\* C11's case: one call of set_mouse_position failed to convert after
\* another had written its converted position and sent the mouse-move.
C11_Witness ==
    \E t, u \in Clicks :
        /\ ~IsClick(t)
        /\ c2s[t] = "failed"
        /\ cerr[t] = "RuntimeError"
        /\ ~IsClick(u)
        /\ cargs[u].convert_from_client
        /\ cpc[u] = "done"
        /\ mouse_pos = ClientToScreen(cargs[u].point)


IsDown(e) ==
    e.kind = "message" /\ e.msg \in {WM_LBUTTONDOWN, WM_RBUTTONDOWN}

IsUpOf(e, d) ==
    e.kind = "message" /\ e.task = d.task /\ e.msg = d.msg + 1

\* C1: two click invocations never interleave their messages: between the
\* button-down of one invocation and a later button-down of another lies
\* the first one's button-up (the sleep, when there is one, lies between
\* its down and its up).
C1_ClicksNeverInterleave ==
    \A i, j \in 1..Len(events) :
        (/\ i < j
         /\ IsDown(events[i])
         /\ IsDown(events[j])
         /\ events[i].task # events[j].task)
        => \E k \in (i + 1)..(j - 1) : IsUpOf(events[k], events[i])

\* C1's case: one invocation sleeps between its button-down and button-up
\* while another one, called meanwhile, waits for the lock.
C1_Witness ==
    \E t, u \in Clicks :
        /\ cpc[t] = "sleep"
        /\ cpc[u] = "acquire"
        /\ \E i \in 1..Len(events) : IsDown(events[i]) /\ events[i].task = t

InBody(t) == cpc[t] \in {"write_mouse_position", "sleep"}

\* C10: the click lock is released on every exit from click: the lock is
\* held exactly while some invocation is inside the block, also after a
\* failed invocation, and an invocation that waits for the lock
\* eventually gets it.
C10_LockReleasedOnEveryExit ==
    /\ [](click_lock # NoLock =>
            (click_lock.locked <=> \E t \in Clicks : InBody(t)))
    /\ \A t \in Clicks : (cpc[t] = "acquire") ~> (cpc[t] # "acquire")

\* C10's case: an invocation failed under the lock while another waited;
\* the lock is free and the waiter has been woken.
C10_Witness ==
    \E t, u \in Clicks :
        /\ cpc[t] = "failed"
        /\ cpc[u] = "acquire"
        /\ u \in click_lock.woken
        /\ ~click_lock.locked

\* C15: every window message of a click (the mouse-move, the button-down
\* and the button-up) is dispatched by the method use_post selects: by
\* PostMessageW when it is true, by SendMessageW when it is false.
C15_MessagesByChosenMethod ==
    \A i \in 1..Len(events) :
        (events[i].kind = "message" /\ IsClick(events[i].task))
        => events[i].method = IF cargs[events[i].task].use_post
                              THEN "PostMessageW" ELSE "SendMessageW"

\* invocation t has sent a button-down
HasDown(t) == \E i \in 1..Len(events) : IsDown(events[i]) /\ events[i].task = t

\* invocation t has sent the button-up of its button-down
HasUp(t) ==
    \E i, k \in 1..Len(events) :
        /\ i < k
        /\ IsDown(events[i])
        /\ events[i].task = t
        /\ IsUpOf(events[k], events[i])

\* the window messages of a click of the given button, in order
ButtonMessages(right_click) ==
    IF right_click THEN <<512, 516, 517>> ELSE <<512, 513, 514>>

\* C16: a click that does not fail dispatches, in this order, the write
\* of the mouse position, the mouse-move, one button-down and one
\* button-up of the same button (0x201 then 0x202 for the left button,
\* 0x204 then 0x205 for the right one), nothing before it holds the lock
\* and all of it while it holds the lock; with sleep_duration above 0 it
\* sleeps after the button-down and before the button-up, and not
\* otherwise; and every button-down is eventually followed by its
\* button-up.
C16_ClickSequence ==
    /\ [](\A t \in Clicks :
            LET ev == EventsOf(t)
                msgs == ButtonMessages(cargs[t].right_click)
                sent == IF cpc[t] = "done" THEN 4
                        ELSE IF cpc[t] = "sleep" THEN 3 ELSE 0
            IN /\ Len(ev) = sent
               /\ sent > 0 =>
                     /\ ev[1].kind = "write_mouse_position"
                     /\ \A k \in 2..sent :
                           ev[k].kind = "message" /\ ev[k].msg = msgs[k - 1]
               /\ cpc[t] = "sleep" => cargs[t].sleep_duration > 0)
    /\ [][\A t \in Clicks :
            /\ EventsOf(t)' # EventsOf(t) => click_lock.locked /\ InBody(t)
            /\ (cpc[t] # "done" /\ cpc'[t] = "done")
                 => (cpc[t] = "sleep" <=> cargs[t].sleep_duration > 0)]_vars
    /\ \A t \in Clicks : HasDown(t) ~> HasUp(t)

\* C16's case: a right click with a sleep has sent its button-down and
\* sleeps, holding the lock.
C16_Witness ==
    \E t \in Clicks :
        /\ cpc[t] = "sleep"
        /\ cargs[t].right_click
        /\ HasDown(t)
        /\ ~HasUp(t)
        /\ click_lock.locked

=============================================================================
